---- MODULE Spec2Model ----
(***************************************************************************)
(* Model of the indicator engine (src/indicators.py) and of the            *)
(* candlestick pattern classifier (src/patterns.py).                       *)
(*                                                                         *)
(* Every operation of the two files is a pure function.  Each function is  *)
(* an operator that computes its result the way the code does; each has    *)
(* one action that calls it on inputs drawn from a small set and records   *)
(* the call, its arguments, what it returned and what it raised.           *)
(*                                                                         *)
(* Arithmetic is exact.  The code's float constants are kept as ratios of  *)
(* integers: 0.01 is 1/100, 0.1 is 1/10, 0.236 is 236/1000 and so on; a    *)
(* quotient is kept as a pair num/den and compared by cross               *)
(* multiplication.  The rounding of IEEE doubles is not modelled.          *)
(***************************************************************************)
EXTENDS Integers, Sequences, FiniteSets, TLC

VARIABLES pc, call, args, ret, raised

vars == <<pc, call, args, ret, raised>>

(* ------------------------------ bounds --------------------------------- *)

\* longest price series handed to the indicator engine
MaxLen == 5
\* prices of a series are 0 .. MaxPrice
MaxPrice == 2
\* periods are 1 .. MaxPeriod
MaxPeriod == 3
\* longest bar series handed to detect_patterns
MaxBars == 3

Prices == 0 .. MaxPrice
Periods == 1 .. MaxPeriod

SeqsUpTo(S, n) == UNION {[1 .. k -> S] : k \in 0 .. n}

PriceSeries == SeqsUpTo(Prices, MaxLen)

(* ------------------------------ helpers -------------------------------- *)

\* Python's abs()
abs(x) == IF x < 0 THEN -x ELSE x

\* the float NaN that pandas puts at a position with no value
NaN == [defined |-> FALSE, num |-> 0, den |-> 1]

\* the float num/den
Quot(n, d) == [defined |-> TRUE, num |-> n, den |-> d]

(* --------------------------- indicators.py ----------------------------- *)

\* pandas' rolling sum is a sliding one: the first window adds its values,
\* each later window adds the value that enters and removes the one that
\* leaves.  RollState is <<nobs, sum_x>> after position i.
RECURSIVE RollState(_, _, _)
RollState(prices, period, i) ==
    IF i = 0 THEN <<0, 0>>
    ELSE LET before == RollState(prices, period, i - 1)
             added  == <<before[1] + 1, before[2] + prices[i]>>
         IN  IF i > period
             THEN <<added[1] - 1, added[2] - prices[i - period]>>
             ELSE added

\* RollMean with min_periods = 1: a partly filled window yields the mean of
\* what it holds.
RollMean_min_periods_1(prices, period, i) ==
    LET st == RollState(prices, period, i)
    IN  IF st[1] >= 1 THEN Quot(st[2], st[1]) ELSE NaN

\* rolling(window=period) has min_periods = period: a window holding fewer
\* observations yields NaN, a full one yields sum_x / nobs.
RollMean(prices, period, i) ==
    LET st == RollState(prices, period, i)
    IN  IF st[1] >= period THEN Quot(st[2], st[1]) ELSE NaN

calculate_sma(prices, period) ==
    [i \in 1 .. Len(prices) |-> RollMean(prices, period, i)]

\* ewm_step with the smoothing factor 1/period.
ewm_step_alpha(weighted, cur, period) ==
    Quot((period - 1) * weighted.num + cur * weighted.den,
         period * weighted.den)

\* One step of ewm(span=period, adjust=False).mean():
\*   alpha = 2/(period+1), old_wt = 1 - alpha, new_wt = alpha,
\*   weighted = (old_wt*weighted + new_wt*cur) / (old_wt + new_wt)
\* with old_wt + new_wt = 1; over the common denominator period+1 this is
\*   ((period-1)*weighted + 2*cur) / (period+1).
ewm_step(weighted, cur, period) ==
    Quot((period - 1) * weighted.num + 2 * cur * weighted.den,
         (period + 1) * weighted.den)

\* The accumulator of the exponentially weighted mean after position i: it
\* is seeded with the first price, then folded over the later ones.
RECURSIVE EwmAt(_, _, _)
EwmAt(prices, period, i) ==
    IF i = 1 THEN Quot(prices[1], 1)
    ELSE ewm_step(EwmAt(prices, period, i - 1), prices[i], period)

calculate_ema(prices, period) ==
    [i \in 1 .. Len(prices) |-> EwmAt(prices, period, i)]

\* pd.Series(prices).value_counts(): each distinct value with the number of
\* positions holding it.
value_counts(prices) ==
    [v \in {prices[i] : i \in 1 .. Len(prices)} |->
        Cardinality({i \in 1 .. Len(prices) : prices[i] = v})]

\* The two lists are modelled by the sets of their elements (value_counts
\* holds each value once, so neither list repeats a value).
identify_horizontal_support_resistance(prices) ==
    LET levels == value_counts(prices)
        resistance == {v \in DOMAIN levels : levels[v] > 1}
        support == {v \in DOMAIN levels : levels[v] < 1}
    IN  [support |-> support, resistance |-> resistance]

\* The six levels, in thousandths of a price unit (0.236 = 236/1000).
calculate_fibonacci_levels(swing_high, swing_low) ==
    LET price_range == swing_high - swing_low
    IN  ("Support Level 1" :> 1000 * swing_high - 236 * price_range) @@
        ("Support Level 2" :> 1000 * swing_high - 382 * price_range) @@
        ("Support Level 3" :> 1000 * swing_high - 618 * price_range) @@
        ("Resistance Level 1" :> 1000 * swing_low + 236 * price_range) @@
        ("Resistance Level 2" :> 1000 * swing_low + 382 * price_range) @@
        ("Resistance Level 3" :> 1000 * swing_low + 618 * price_range)

\* PeakTroughBody with non-strict comparisons.
PeakTroughBody_ties(acc, prices, i) ==
    IF prices[i] >= prices[i - 1] /\ prices[i] >= prices[i + 1]
    THEN [acc EXCEPT !.peaks = Append(@, prices[i])]
    ELSE IF prices[i] <= prices[i - 1] /\ prices[i] <= prices[i + 1]
    THEN [acc EXCEPT !.troughs = Append(@, prices[i])]
    ELSE acc

\* The body of the loop of peak_trough_analysis at position i.
PeakTroughBody(acc, prices, i) ==
    IF prices[i] > prices[i - 1] /\ prices[i] > prices[i + 1]
    THEN [acc EXCEPT !.peaks = Append(@, prices[i])]
    ELSE IF prices[i] < prices[i - 1] /\ prices[i] < prices[i + 1]
    THEN [acc EXCEPT !.troughs = Append(@, prices[i])]
    ELSE acc

\* for i in range(1, len(prices) - 1), 1-based here: i = 2 .. Len - 1
RECURSIVE PeakTroughLoop(_, _, _)
PeakTroughLoop(acc, prices, i) ==
    IF i > Len(prices) - 1 THEN acc
    ELSE PeakTroughLoop(PeakTroughBody(acc, prices, i), prices, i + 1)

peak_trough_analysis(prices) ==
    PeakTroughLoop([peaks |-> <<>>, troughs |-> <<>>], prices, 2)

(* ---------------------------- patterns.py ------------------------------ *)

\* The default of is_doji's threshold, 0.01, in hundredths.
DefaultThreshold == 1

\* is_doji with <= for <.
is_doji_or_equal(open_price, close_price, threshold) ==
    200 * abs(open_price - close_price) <= threshold * (open_price + close_price)

\* abs(open - close) < threshold * (open + close) / 2, with the threshold in
\* hundredths: both sides are multiplied by 200.
is_doji(open_price, close_price, threshold) ==
    200 * abs(open_price - close_price) < threshold * (open_price + close_price)

\* is_hammer with "at least twice the body" for "more than twice the body".
is_hammer_at_least(low, high, open_price, close_price) ==
    LET body == abs(close_price - open_price)
        lower_shadow == IF open_price < close_price
                        THEN open_price - low ELSE close_price - low
        upper_shadow == IF open_price < close_price
                        THEN high - open_price ELSE high - close_price
    IN  10 * body < upper_shadow /\ lower_shadow >= 2 * body

\* body < upper_shadow * 0.1 is multiplied by 10 on both sides.
is_hammer(low, high, open_price, close_price) ==
    LET body == abs(close_price - open_price)
        lower_shadow == IF open_price < close_price
                        THEN open_price - low ELSE close_price - low
        upper_shadow == IF open_price < close_price
                        THEN high - open_price ELSE high - close_price
    IN  10 * body < upper_shadow /\ lower_shadow > 2 * body

is_engulfing(previous_open, previous_close, current_open, current_close) ==
    IF current_open < previous_close /\ current_close > previous_open
    THEN "Bullish"
    ELSE IF current_open > previous_close /\ current_close < previous_open
    THEN "Bearish"
    ELSE "None"

\* engulfing_type + ' Engulfing'
EngulfingKind(engulfing_type) ==
    IF engulfing_type = "Bullish" THEN "Bullish Engulfing"
    ELSE "Bearish Engulfing"

\* DetectBody with three independent ifs in place of the if/elif chain.
DetectBody_independent(patterns, previous_candle, current_candle) ==
    LET engulfing_type == is_engulfing(previous_candle.Open, previous_candle.Close,
                                       current_candle.Open, current_candle.Close)
        p1 == IF is_doji(current_candle.Open, current_candle.Close, DefaultThreshold)
              THEN Append(patterns, <<current_candle.Date, "Doji">>)
              ELSE patterns
        p2 == IF is_hammer(current_candle.Low, current_candle.High,
                           current_candle.Open, current_candle.Close)
              THEN Append(p1, <<current_candle.Date, "Hammer">>)
              ELSE p1
    IN  IF engulfing_type # "None"
        THEN Append(p2, <<current_candle.Date, EngulfingKind(engulfing_type)>>)
        ELSE p2

\* The body of the loop of detect_patterns: the patterns after one bar.
DetectBody(patterns, previous_candle, current_candle) ==
    LET engulfing_type == is_engulfing(previous_candle.Open, previous_candle.Close,
                                       current_candle.Open, current_candle.Close)
    IN  IF is_doji(current_candle.Open, current_candle.Close, DefaultThreshold)
        THEN Append(patterns, <<current_candle.Date, "Doji">>)
        ELSE IF is_hammer(current_candle.Low, current_candle.High,
                          current_candle.Open, current_candle.Close)
        THEN Append(patterns, <<current_candle.Date, "Hammer">>)
        ELSE IF engulfing_type # "None"
        THEN Append(patterns, <<current_candle.Date, EngulfingKind(engulfing_type)>>)
        ELSE patterns

\* for i in range(1, len(data)), 1-based here: i = 2 .. Len
RECURSIVE DetectLoop(_, _, _)
DetectLoop(patterns, data, i) ==
    IF i > Len(data) THEN patterns
    ELSE DetectLoop(DetectBody(patterns, data[i - 1], data[i]), data, i + 1)

detect_patterns(data) == DetectLoop(<<>>, data, 2)

(* ------------------------------ inputs --------------------------------- *)

\* swing points handed to calculate_fibonacci_levels
SwingPrices == {90, 100, 105, 110}

\* prices and thresholds (in hundredths) handed to is_doji
DojiPrices == {-100, -1, 0, 1, 100, 101}
Thresholds == {0, 1, 50, 200}

\* prices handed to is_hammer
HammerPrices == {7, 8, 9, 10, 11, 21}

\* prices handed to is_engulfing
EngulfingPrices == {99, 100, 101, 102, 103}

\* The candles handed to detect_patterns, as <<Open, High, Low, Close>>,
\* each with Low <= Open, Close <= High: a doji that is a hammer too, a doji
\* that is none, a hammer, a long rising and a long falling candle, a short
\* rising and a short falling candle, and a flat candle at price zero.
Shapes ==
    { <<10, 11, 7, 10>>, <<11, 11, 11, 11>>, <<10, 21, 7, 11>>,
      <<7, 21, 7, 21>>, <<21, 21, 7, 7>>, <<10, 11, 10, 11>>,
      <<11, 11, 10, 10>>, <<0, 10, 0, 0>> }

\* The frame of candles: the candle at Python index k has Date k.
Frame(shapes) ==
    [i \in 1 .. Len(shapes) |->
        [Date |-> i - 1, Open |-> shapes[i][1], High |-> shapes[i][2],
         Low |-> shapes[i][3], Close |-> shapes[i][4]]]

BarSeries == {Frame(s) : s \in SeqsUpTo(Shapes, MaxBars)}

(* ---------------------------- state machine ---------------------------- *)

\* No function has been called; none of the functions raises.
Init ==
    /\ pc = "idle"
    /\ call = "none"
    /\ args = <<>>
    /\ ret = <<>>
    /\ raised = "none"

Call_calculate_sma ==
    /\ pc = "idle"
    /\ \E prices \in PriceSeries, period \in Periods :
        /\ call' = "calculate_sma"
        /\ args' = [prices |-> prices, period |-> period]
        /\ ret' = calculate_sma(prices, period)
    /\ pc' = "returned"
    /\ raised' = "none"

Call_calculate_ema ==
    /\ pc = "idle"
    /\ \E prices \in PriceSeries, period \in Periods :
        /\ call' = "calculate_ema"
        /\ args' = [prices |-> prices, period |-> period]
        /\ ret' = calculate_ema(prices, period)
    /\ pc' = "returned"
    /\ raised' = "none"

Call_identify_horizontal_support_resistance ==
    /\ pc = "idle"
    /\ \E prices \in PriceSeries :
        /\ call' = "identify_horizontal_support_resistance"
        /\ args' = [prices |-> prices]
        /\ ret' = identify_horizontal_support_resistance(prices)
    /\ pc' = "returned"
    /\ raised' = "none"

Call_calculate_fibonacci_levels ==
    /\ pc = "idle"
    /\ \E swing_high \in SwingPrices, swing_low \in SwingPrices :
        /\ call' = "calculate_fibonacci_levels"
        /\ args' = [swing_high |-> swing_high, swing_low |-> swing_low]
        /\ ret' = calculate_fibonacci_levels(swing_high, swing_low)
    /\ pc' = "returned"
    /\ raised' = "none"

Call_peak_trough_analysis ==
    /\ pc = "idle"
    /\ \E prices \in PriceSeries :
        /\ call' = "peak_trough_analysis"
        /\ args' = [prices |-> prices]
        /\ ret' = peak_trough_analysis(prices)
    /\ pc' = "returned"
    /\ raised' = "none"

Call_is_doji ==
    /\ pc = "idle"
    /\ \E open_price \in DojiPrices, close_price \in DojiPrices,
          threshold \in Thresholds :
        /\ call' = "is_doji"
        /\ args' = [open_price |-> open_price, close_price |-> close_price,
                    threshold |-> threshold]
        /\ ret' = is_doji(open_price, close_price, threshold)
    /\ pc' = "returned"
    /\ raised' = "none"

Call_is_hammer ==
    /\ pc = "idle"
    /\ \E low \in HammerPrices, high \in HammerPrices,
          open_price \in HammerPrices, close_price \in HammerPrices :
        /\ call' = "is_hammer"
        /\ args' = [low |-> low, high |-> high, open_price |-> open_price,
                    close_price |-> close_price]
        /\ ret' = is_hammer(low, high, open_price, close_price)
    /\ pc' = "returned"
    /\ raised' = "none"

Call_is_engulfing ==
    /\ pc = "idle"
    /\ \E previous_open \in EngulfingPrices, previous_close \in EngulfingPrices,
          current_open \in EngulfingPrices, current_close \in EngulfingPrices :
        /\ call' = "is_engulfing"
        /\ args' = [previous_open |-> previous_open, previous_close |-> previous_close,
                    current_open |-> current_open, current_close |-> current_close]
        /\ ret' = is_engulfing(previous_open, previous_close,
                                current_open, current_close)
    /\ pc' = "returned"
    /\ raised' = "none"

Call_detect_patterns ==
    /\ pc = "idle"
    /\ \E data \in BarSeries :
        /\ call' = "detect_patterns"
        /\ args' = [data |-> data]
        /\ ret' = detect_patterns(data)
    /\ pc' = "returned"
    /\ raised' = "none"

\* The caller takes the result; the functions keep nothing between calls.
Done ==
    /\ pc = "returned"
    /\ pc' = "idle"
    /\ call' = "none"
    /\ args' = <<>>
    /\ ret' = <<>>
    /\ raised' = "none"

Next ==
    \/ Call_calculate_sma
    \/ Call_calculate_ema
    \/ Call_identify_horizontal_support_resistance
    \/ Call_calculate_fibonacci_levels
    \/ Call_peak_trough_analysis
    \/ Call_is_doji
    \/ Call_is_hammer
    \/ Call_is_engulfing
    \/ Call_detect_patterns
    \/ Done

Spec == Init /\ [][Next]_vars

(* ------------------------------ properties ----------------------------- *)

\* the dates of the events of a pattern list that carry date d
EventsAt(patterns, d) == {j \in 1 .. Len(patterns) : patterns[j][1] = d}

\* the first rule, in the order Doji, Hammer, Engulfing, that the candle cur
\* matches after the candle prev; "no event" when it matches none
FirstMatch(prev, cur) ==
    IF is_doji(cur.Open, cur.Close, DefaultThreshold) THEN "Doji"
    ELSE IF is_hammer(cur.Low, cur.High, cur.Open, cur.Close) THEN "Hammer"
    ELSE IF is_engulfing(prev.Open, prev.Close, cur.Open, cur.Close) = "Bullish"
    THEN "Bullish Engulfing"
    ELSE IF is_engulfing(prev.Open, prev.Close, cur.Open, cur.Close) = "Bearish"
    THEN "Bearish Engulfing"
    ELSE "no event"

\* C1: detect_patterns emits no event for the bar at index 0 and, for each
\* later bar, at most one event: the first rule that matches in the order
\* Doji, Hammer, Engulfing (a doji bar yields exactly one Doji event, a bar
\* matching no rule yields none); the events appear in bar order.
C1_FirstMatchWins ==
    call = "detect_patterns" =>
        LET data == args.data
        IN  /\ \A j \in 1 .. Len(ret) :
                    \E i \in 2 .. Len(data) : ret[j][1] = data[i].Date
            /\ \A i \in 1 .. Len(data) :
                    i = 1 => EventsAt(ret, data[i].Date) = {}
            /\ \A i \in 2 .. Len(data) :
                    LET kind == FirstMatch(data[i - 1], data[i])
                        at   == EventsAt(ret, data[i].Date)
                    IN  IF kind = "no event" THEN at = {}
                        ELSE /\ Cardinality(at) = 1
                             /\ \A j \in at : ret[j][2] = kind
            /\ \A j \in 1 .. Len(ret), k \in 1 .. Len(ret) :
                    j < k => ret[j][1] < ret[k][1]

\* C1 witness: a bar that is a doji and would also be an engulfing one is
\* reported as Doji, after an earlier bar that was reported too.
C1_Witness ==
    /\ call = "detect_patterns"
    /\ Len(ret) >= 2
    /\ \E i \in 2 .. Len(args.data) :
           LET prev == args.data[i - 1]
               cur  == args.data[i]
           IN  /\ is_doji(cur.Open, cur.Close, DefaultThreshold)
               /\ is_engulfing(prev.Open, prev.Close, cur.Open, cur.Close) # "None"
               /\ \E j \in 2 .. Len(ret) : ret[j] = <<cur.Date, "Doji">>

\* prices[from] + ... + prices[to]
RECURSIVE SumOf(_, _, _)
SumOf(prices, from, to) ==
    IF from > to THEN 0 ELSE prices[from] + SumOf(prices, from + 1, to)

\* C2: calculate_sma returns one position per price; the positions before
\* the first full window (1-based: i < period) are undefined, and each later
\* position holds the mean of the period prices that end at it.
C2_SmaIsWindowMean ==
    call = "calculate_sma" =>
        LET prices == args.prices
            period == args.period
        IN  /\ DOMAIN ret = 1 .. Len(prices)
            /\ \A i \in 1 .. Len(prices) :
                    IF i < period THEN ~ret[i].defined
                    ELSE /\ ret[i].defined
                         /\ ret[i].den > 0
                         /\ ret[i].num * period
                              = ret[i].den * SumOf(prices, i - period + 1, i)

\* C2 witness: a window that has slid (a price left it) over unequal prices,
\* after an undefined region.
C2_Witness ==
    /\ call = "calculate_sma"
    /\ args.period >= 2
    /\ Len(args.prices) > args.period
    /\ args.prices[1] # args.prices[Len(args.prices)]
    /\ ~ret[1].defined
    /\ ret[Len(args.prices)].defined

\* C3: on a non-empty series calculate_ema returns one defined value per
\* price, ema[0] = prices[0] and ema[i] = a*prices[i] + (1-a)*ema[i-1] with
\* a = 2/(period+1); the recurrence is multiplied by (period+1) and by both
\* denominators.
C3_EmaRecurrence ==
    (call = "calculate_ema" /\ Len(args.prices) > 0) =>
        LET prices == args.prices
            period == args.period
        IN  /\ DOMAIN ret = 1 .. Len(prices)
            /\ \A i \in 1 .. Len(prices) : ret[i].defined /\ ret[i].den > 0
            /\ ret[1].num = prices[1] * ret[1].den
            /\ \A i \in 2 .. Len(prices) :
                    ret[i].num * (period + 1) * ret[i - 1].den
                      = ret[i].den * ( 2 * prices[i] * ret[i - 1].den
                                       + (period - 1) * ret[i - 1].num )

\* C3 witness: three or more prices, not all equal, smoothed with a period
\* for which a is neither 1 nor 1/period.
C3_Witness ==
    /\ call = "calculate_ema"
    /\ Len(args.prices) >= 3
    /\ args.period >= 2
    /\ args.prices[1] # args.prices[2]
    /\ args.prices[2] # args.prices[3]
    /\ ret[3].defined

\* the closed interval between a candle's open and close
BodyLow(open_price, close_price) ==
    IF open_price < close_price THEN open_price ELSE close_price

BodyHigh(open_price, close_price) ==
    IF open_price < close_price THEN close_price ELSE open_price

\* the current body contains the previous body
Contains(previous_open, previous_close, current_open, current_close) ==
    /\ BodyLow(current_open, current_close) <= BodyLow(previous_open, previous_close)
    /\ BodyHigh(previous_open, previous_close) <= BodyHigh(current_open, current_close)

\* the two bodies share a point
Overlap(previous_open, previous_close, current_open, current_close) ==
    /\ BodyLow(current_open, current_close) <= BodyHigh(previous_open, previous_close)
    /\ BodyLow(previous_open, previous_close) <= BodyHigh(current_open, current_close)

\* C4: is_engulfing returns Bullish or Bearish only when the current body
\* contains the previous body, and None for bodies that overlap without the
\* current one containing the previous one.
C4_EngulfingContains ==
    call = "is_engulfing" =>
        LET c == Contains(args.previous_open, args.previous_close,
                          args.current_open, args.current_close)
            o == Overlap(args.previous_open, args.previous_close,
                         args.current_open, args.current_close)
        IN  /\ ret \in {"Bullish", "Bearish"} => c
            /\ (o /\ ~c) => ret = "None"

\* the values of prices at the positions of S, in position order
RECURSIVE ValuesAt(_, _)
ValuesAt(prices, S) ==
    IF S = {} THEN <<>>
    ELSE LET last == CHOOSE i \in S : \A k \in S : k <= i
         IN  Append(ValuesAt(prices, S \ {last}), prices[last])

Interior(prices) == {i \in 1 .. Len(prices) : 1 < i /\ i < Len(prices)}

PeakPositions(prices) ==
    {i \in Interior(prices) :
        prices[i - 1] < prices[i] /\ prices[i + 1] < prices[i]}

TroughPositions(prices) ==
    {i \in Interior(prices) :
        prices[i] < prices[i - 1] /\ prices[i] < prices[i + 1]}

\* C5: peak_trough_analysis reports as peaks exactly the values at interior
\* positions strictly above both neighbours and as troughs exactly those
\* strictly below both, each list in position order; so the first and the
\* last position and a position with an equal neighbour are reported as
\* neither, and no position as both.
C5_PeaksAndTroughs ==
    call = "peak_trough_analysis" =>
        /\ ret.peaks = ValuesAt(args.prices, PeakPositions(args.prices))
        /\ ret.troughs = ValuesAt(args.prices, TroughPositions(args.prices))
        /\ Len(ret.peaks) + Len(ret.troughs) <= Cardinality(Interior(args.prices))

\* C5 witness: a series with a peak, a trough and an interior position that
\* equals one of its neighbours.
C5_Witness ==
    /\ call = "peak_trough_analysis"
    /\ Len(ret.peaks) >= 1
    /\ Len(ret.troughs) >= 1
    /\ \E i \in Interior(args.prices) :
           args.prices[i] = args.prices[i - 1] \/ args.prices[i] = args.prices[i + 1]

\* C6: calculate_fibonacci_levels fails with InvalidParameter whenever
\* swing_high < swing_low.
C6_FibonacciRejectsInvertedSwing ==
    (call = "calculate_fibonacci_levels" /\ args.swing_high < args.swing_low)
        => raised = "InvalidParameter"

\* the number of positions of prices that hold v
Occurrences(prices, v) == Cardinality({i \in 1 .. Len(prices) : prices[i] = v})

\* C7: identify_horizontal_support_resistance returns as resistance the
\* values that occur more than once and as support the values that occur
\* exactly once.
C7_SupportIsSinglyOccurring ==
    call = "identify_horizontal_support_resistance" =>
        LET values == {args.prices[i] : i \in 1 .. Len(args.prices)}
        IN  /\ ret.resistance = {v \in values : Occurrences(args.prices, v) > 1}
            /\ ret.support = {v \in values : Occurrences(args.prices, v) = 1}

\* the shape of a candle as is_hammer measures it: the shadows are taken
\* from the lower end of the body
HammerBody(a) ==
    IF a.open_price < a.close_price THEN a.close_price - a.open_price
    ELSE a.open_price - a.close_price

HammerLower(a) == BodyLow(a.open_price, a.close_price) - a.low

HammerUpper(a) == a.high - BodyLow(a.open_price, a.close_price)

\* C8 (as amended): is_hammer returns true exactly when
\* body < 0.1 * upper_shadow and lower_shadow > 2 * body, equality excluded.
C8_HammerStrict ==
    call = "is_hammer" =>
        ret = ( /\ 10 * HammerBody(args) < HammerUpper(args)
                /\ HammerLower(args) > 2 * HammerBody(args) )

\* C8 (as claimed): is_hammer returns true exactly when
\* body < 0.1 * upper_shadow and lower_shadow >= 2 * body, equality included.
C8_HammerAtLeast ==
    call = "is_hammer" =>
        ret = ( /\ 10 * HammerBody(args) < HammerUpper(args)
                /\ HammerLower(args) >= 2 * HammerBody(args) )

\* C8 witness: a candle with a body, a lower shadow of exactly twice the
\* body and a long upper shadow is no hammer.
C8_Witness ==
    /\ call = "is_hammer"
    /\ HammerBody(args) > 0
    /\ 10 * HammerBody(args) < HammerUpper(args)
    /\ HammerLower(args) = 2 * HammerBody(args)
    /\ ret = FALSE

\* C9: peak_trough_analysis on fewer than 3 prices and detect_patterns on
\* fewer than 2 bars fail with InsufficientData.
C9_ShortInputFails ==
    /\ (call = "peak_trough_analysis" /\ Len(args.prices) < 3)
           => raised = "InsufficientData"
    /\ (call = "detect_patterns" /\ Len(args.data) < 2)
           => raised = "InsufficientData"

\* C10: is_doji returns false, and raises nothing, whenever open + close = 0
\* and the threshold is >= 0; otherwise it returns true exactly when
\* |open - close| < threshold * (open + close) / 2.
C10_DojiZeroScale ==
    call = "is_doji" =>
        LET o == args.open_price
            c == args.close_price
            distance == IF o < c THEN c - o ELSE o - c
        IN  /\ raised = "none"
            /\ ret \in BOOLEAN
            /\ (o + c = 0 /\ args.threshold >= 0) => ret = FALSE
            /\ o + c # 0 => (ret <=> 200 * distance < args.threshold * (o + c))

\* C10 witness: opposite non-zero prices under a positive threshold are no
\* doji.
C10_Witness ==
    /\ call = "is_doji"
    /\ args.open_price + args.close_price = 0
    /\ args.open_price # 0
    /\ args.threshold > 0
    /\ ret = FALSE
    /\ raised = "none"

====
